---- MODULE Spec2Model ----
(***************************************************************************)
(* AsyncGammaMarketClient.get_all_current_markets                          *)
(* (src/agents/polymarket/gamma_async.py): the first page is fetched and   *)
(* awaited, the remaining pages are fanned out as concurrent get_markets   *)
(* coroutines joined by asyncio.gather(return_exceptions=True), and the    *)
(* joined results are aggregated in task order.                            *)
(*                                                                         *)
(* A record of the remote collection is modelled by its absolute index in  *)
(* the collection, so a request with offset o answered with k records      *)
(* yields <<o, o+1, ..., o+k-1>>.                                          *)
(***************************************************************************)
EXTENDS Integers, Sequences, FiniteSets, Bags, TLC

VARIABLES
    limit,          \* argument limit of get_all_current_markets (markets per page)
    max_pages,      \* argument max_pages of get_all_current_markets
    pc,             \* position of the orchestrating coroutine
    requests,       \* bag of the query parameters of every GET that
                    \* get_all_current_markets issued so far
    first_resp,     \* the remote's answer to the page-0 GET (net = "none" until it arrives)
    tasks,          \* the list `tasks`: query parameters of each fan-out coroutine
    task_state,     \* per fan-out coroutine: created, in flight, or done with the
                    \* remote's answer and what get_markets made of it
    out_of_order,   \* some fan-out coroutine completed before one of lower offset
    all_markets,    \* the accumulator `all_markets` (aliases first_page)
    ret,            \* the value returned by the call (<<>> until it returns)
    exc,            \* the exception raised by the call ("none" until it raises)
    gather_results, \* the list `results` the gather handed back (<<>> until it is joined)
    log,            \* the lines printed so far, each tagged with the coroutine printing it
    session,        \* self._session: index in `sessions` of the current session (0: None)
    sessions,       \* every ClientSession created so far: closed or not, times closed
    gets,           \* bag of the session.get calls made so far: session used and endpoint
    fresh,          \* number of _get_session calls that found no open session
    calls           \* the get_markets / get_events calls made directly on the client

vars == <<limit, max_pages, pc, requests, first_resp, tasks, task_state, out_of_order,
          all_markets, ret, exc, gather_results, log, session, sessions, gets,
          fresh, calls>>

\* the client's session state and the direct calls, which a step of
\* get_all_current_markets that issues no request leaves alone
client_vars == <<session, sessions, gets, fresh, calls>>

----------------------------------------------------------------------------
(* Bounds of the model *)

\* largest page size (limit) a call is made with
MaxLimit == 2
\* largest max_pages a call is made with under Spec (smallest is -1)
MaxPages == 5
\* how far above the ceiling the largest max_pages of SpecCap lies
CapExcess == 40
\* number of get_markets / get_events calls made directly on the client (SpecClient)
MaxCalls == 1
\* max_pages of the get_all_current_markets call under SpecClient, and the
\* largest one under SpecLive
ClientPages == 3

(* Program constants *)

\* min(max_pages, 10): the hardcoded ceiling on the number of pages
PageCap == 10
\* the only HTTP status get_markets accepts
HTTP_OK == 200
\* the non-200 statuses the remote answers with (the else branch of get_markets)
ErrorStatuses == {404, 500}

----------------------------------------------------------------------------
(* Pure helpers *)

Min(a, b) == IF a <= b THEN a ELSE b

\* Python range(a, b) as a sequence
Range(a, b) == [i \in 1..(IF b > a THEN b - a ELSE 0) |-> a + i - 1]

\* the querystring_params of the request for the page at `offset`
\* (active/closed/archived are the same literals in every request)
Params(lim, offset) ==
    [active |-> TRUE, closed |-> FALSE, archived |-> FALSE,
     limit |-> lim, offset |-> offset]

\* The remote's answer to one GET: a transport failure, or a status with a
\* body that is either undecodable or a JSON array of `count` records.
Responses(lim) ==
    {[net |-> "error", status |-> 0, json |-> FALSE, count |-> 0]}
    \cup {[net |-> "ok", status |-> s, json |-> FALSE, count |-> 0] : s \in ErrorStatuses}
    \cup {[net |-> "ok", status |-> HTTP_OK, json |-> FALSE, count |-> 0]}
    \cup {[net |-> "ok", status |-> HTTP_OK, json |-> TRUE, count |-> k] : k \in 0..lim}

\* the decoded body: the slice of the remote collection the request addresses
Body(params, resp) == [r \in 1..resp.count |-> params.offset + r - 1]

\* get_markets printing the error response and returning no markets instead of raising
get_markets_NoRaise(params, resp) ==
    IF resp.net = "error"
    THEN [ok |-> FALSE, exc |-> "ClientError", status |-> 0, data |-> <<>>]
    ELSE IF resp.status = HTTP_OK
         THEN IF resp.json
              THEN [ok |-> TRUE, exc |-> "none", status |-> 0, data |-> Body(params, resp)]
              ELSE [ok |-> FALSE, exc |-> "JSONDecodeError", status |-> 0, data |-> <<>>]
         ELSE [ok |-> TRUE, exc |-> "none", status |-> 0, data |-> <<>>]

\* get_markets(querystring_params) with parse_pydantic=False, local_file_path=None:
\* what the coroutine returns or raises for a given answer of the remote.
get_markets(params, resp) ==
    IF resp.net = "error"
    THEN [ok |-> FALSE, exc |-> "ClientError", status |-> 0, data |-> <<>>]
    ELSE IF resp.status = HTTP_OK
         THEN IF resp.json
              THEN [ok |-> TRUE, exc |-> "none", status |-> 0, data |-> Body(params, resp)]
              ELSE [ok |-> FALSE, exc |-> "JSONDecodeError", status |-> 0, data |-> <<>>]
         ELSE [ok |-> FALSE, exc |-> "Gamma API error: HTTP", status |-> resp.status,
               data |-> <<>>]

\* AfterFirstPage with both end-of-data tests collapsed into `len(first_page) <= limit`
AfterFirstPage_AtMostLimit(first_page, lim) ==
    IF Len(first_page) <= lim THEN "fan_out" ELSE "return_short"

\* AfterFirstPage without the `len(first_page) == limit` test: any non-empty page fans out
AfterFirstPage_NonEmpty(first_page, lim) ==
    IF Len(first_page) = 0 THEN "return_empty" ELSE "fan_out"

\* what the coroutine does with a successfully fetched first page:
\* `if len(first_page) == 0: return first_page`, then `if len(first_page) == limit:`
AfterFirstPage(first_page, lim) ==
    IF Len(first_page) = 0 THEN "return_empty"
    ELSE IF Len(first_page) = lim THEN "fan_out"
    ELSE "return_short"

\* num_pages without the ceiling: num_pages = max_pages
NumPages_NoCap(mp) == mp

\* num_pages = min(max_pages, 10)
NumPages(mp) == Min(mp, PageCap)

\* offset = page * limit
Offset(page, lim) == page * lim

\* the for loop over range(0, num_pages): page 0 is fetched a second time
BuildTasks_FromZero(lim, mp) ==
    LET pages == Range(0, NumPages(mp))
    IN  [i \in 1..Len(pages) |-> Params(lim, Offset(pages[i], lim))]

\* the for loop that builds `tasks`: one coroutine per page in range(1, num_pages)
BuildTasks(lim, mp) ==
    LET pages == Range(1, NumPages(mp))
    IN  [i \in 1..Len(pages) |-> Params(lim, Offset(pages[i], lim))]

\* the lines the aggregation loop prints: the positions of the results it
\* reports with "Error fetching market page", from position i on
RECURSIVE AggregateErrors(_, _, _)
AggregateErrors(results, i, lim) ==
    IF i > Len(results) THEN {}
    ELSE LET result == results[i] IN
         IF ~result.ok
         THEN {i} \cup AggregateErrors(results, i + 1, lim)
         ELSE IF result.data # <<>> /\ Len(result.data) < lim
              THEN {}                                          \* break
              ELSE AggregateErrors(results, i + 1, lim)

\* a gather that cancels the children still listed after the first failed one
GatherResults_FailFast(st) ==
    [i \in 1..Len(st) |->
        IF \E j \in 1..(i - 1) : ~st[j].outcome.ok
        THEN [ok |-> FALSE, exc |-> "CancelledError", status |-> 0, data |-> <<>>]
        ELSE st[i].outcome]

\* a gather that hands the outcomes back last task first
GatherResults_Reversed(st) == [i \in 1..Len(st) |-> st[Len(st) + 1 - i].outcome]

\* asyncio.gather(*tasks, return_exceptions=True): the outcomes in task order
GatherResults(st) == [i \in 1..Len(st) |-> st[i].outcome]

\* the aggregation loop abandoning the remaining pages at the first failed one
RECURSIVE Aggregate_StopOnError(_, _, _, _)
Aggregate_StopOnError(acc, results, i, lim) ==
    IF i > Len(results) THEN acc
    ELSE LET result == results[i] IN
         IF ~result.ok
         THEN acc
         ELSE IF result.data # <<>>
              THEN IF Len(result.data) < lim
                   THEN acc \o result.data
                   ELSE Aggregate_StopOnError(acc \o result.data, results, i + 1, lim)
              ELSE Aggregate_StopOnError(acc, results, i + 1, lim)

\* the aggregation loop without its `break`
RECURSIVE Aggregate_NoBreak(_, _, _, _)
Aggregate_NoBreak(acc, results, i, lim) ==
    IF i > Len(results) THEN acc
    ELSE LET result == results[i] IN
         IF ~result.ok
         THEN Aggregate_NoBreak(acc, results, i + 1, lim)
         ELSE Aggregate_NoBreak(acc \o result.data, results, i + 1, lim)

\* the aggregation loop `for result in results`, from position i on
RECURSIVE Aggregate(_, _, _, _)
Aggregate(acc, results, i, lim) ==
    IF i > Len(results) THEN acc
    ELSE LET result == results[i] IN
         IF ~result.ok
         THEN Aggregate(acc, results, i + 1, lim)             \* isinstance(result, Exception): print
         ELSE IF result.data # <<>>                            \* elif result:
              THEN IF Len(result.data) < lim
                   THEN acc \o result.data                     \* extend, break
                   ELSE Aggregate(acc \o result.data, results, i + 1, lim)
              ELSE Aggregate(acc, results, i + 1, lim)         \* empty page: neither branch

\* a gather joined as soon as one child is done (FIRST_COMPLETED)
GatherDone_Any(st) == \E i \in 1..Len(st) : st[i].phase = "done"

\* a gather joined as soon as its first child is done
GatherDone_First(st) == st[1].phase = "done"

\* the gather is joined once every child is done
GatherDone(st) == \A i \in 1..Len(st) : st[i].phase = "done"

----------------------------------------------------------------------------
(* The session: _get_session and close *)

\* _get_session without any reuse: a session per call
NeedsNewSession_Always(cur, all) == TRUE

\* _get_session without the `.closed` test: a closed session is handed out again
NeedsNewSession_NoneOnly(cur, all) == cur = 0

\* close() without the `not self._session.closed` test
SessionsAfterClose_Unguarded(cur, all) ==
    IF cur # 0
    THEN [all EXCEPT ![cur] = [closed |-> TRUE, releases |-> @.releases + 1]]
    ELSE all

\* aiohttp.ClientSession(): a new, open session that was never closed
NewSession == [closed |-> FALSE, releases |-> 0]

\* `if self._session is None or self._session.closed`
NeedsNewSession(cur, all) == cur = 0 \/ all[cur].closed

\* the sessions existing after _get_session()
SessionsAfterGet(cur, all) ==
    IF NeedsNewSession(cur, all) THEN Append(all, NewSession) ELSE all

\* self._session after _get_session(), which is also what it returns
SessionAfterGet(cur, all) ==
    IF NeedsNewSession(cur, all) THEN Len(all) + 1 ELSE cur

\* the sessions existing after close():
\* `if self._session and not self._session.closed: await self._session.close()`
SessionsAfterClose(cur, all) ==
    IF cur # 0 /\ ~all[cur].closed
    THEN [all EXCEPT ![cur] = [closed |-> TRUE, releases |-> @.releases + 1]]
    ELSE all

\* the endpoint a fetcher GETs: gamma_markets_endpoint or gamma_events_endpoint
Endpoint(fn) == IF fn = "get_markets" THEN "markets" ELSE "events"

\* the mode test with its second operand negated: `local_file_path is None`
ConfigConflict_FileIsNone(parse_pydantic, local_file) == parse_pydantic /\ ~local_file

\* `if parse_pydantic and local_file_path is not None: raise Exception(...)`
ConfigConflict(parse_pydantic, local_file) == parse_pydantic /\ local_file

\* what that raise leaves of the call
ConfigError ==
    [kind |-> "raise", exc |-> "Cannot use parse_pydantic and local_file simultaneously",
     status |-> 0, endpoint |-> "none", data |-> <<>>, dumped |-> FALSE]

\* a status test that lets every status below 500 through
StatusOk_BelowServerError(status) == status < 500

\* `if resp.status == 200`
StatusOk(status) == status = HTTP_OK

\* get_markets / get_events from `async with session.get(...)` on, in every
\* output mode: what the call returns or raises for a given answer of the
\* remote.  `unparsable` are the records parse_pydantic_* returns None for.
\* The raised message interpolates resp.status and nothing else.
PageFetcher(fn, parse_pydantic, local_file, params, resp, unparsable) ==
    IF resp.net = "error"
    THEN [kind |-> "raise", exc |-> "ClientError", status |-> 0, endpoint |-> "none",
          data |-> <<>>, dumped |-> FALSE]
    ELSE IF StatusOk(resp.status)
    THEN IF ~resp.json
         THEN [kind |-> "raise", exc |-> "JSONDecodeError", status |-> 0,
               endpoint |-> "none", data |-> <<>>, dumped |-> FALSE]
         ELSE LET data == Body(params, resp) IN
              IF local_file                          \* json.dump, then falls off the end
              THEN [kind |-> "none", exc |-> "none", status |-> 0, endpoint |-> "none",
                    data |-> data, dumped |-> TRUE]
              ELSE IF ~parse_pydantic                \* return data
              THEN [kind |-> "list", exc |-> "none", status |-> 0, endpoint |-> "none",
                    data |-> data, dumped |-> FALSE]
              ELSE [kind |-> "list", exc |-> "none", status |-> 0, endpoint |-> "none",
                    data |-> SelectSeq(data, LAMBDA m : m \notin unparsable),
                    dumped |-> FALSE]
    ELSE [kind |-> "raise", exc |-> "Gamma API error: HTTP", status |-> resp.status,
          endpoint |-> "none", data |-> <<>>, dumped |-> FALSE]

\* the lines parse_pydantic_market / parse_pydantic_event print for the
\* records they fail on
ParseLog(who, parse_pydantic, local_file, params, resp, unparsable) ==
    IF resp.net = "ok" /\ resp.status = HTTP_OK /\ resp.json
       /\ parse_pydantic /\ ~local_file
    THEN {[by |-> "parse", who |-> who, info |-> m] :
             m \in {params.offset + r - 1 : r \in 1..resp.count} \cap unparsable}
    ELSE {}

\* the line get_markets prints before raising on a non-200 status
\* (get_events prints nothing)
FetchLog(who, fn, resp) ==
    IF fn = "get_markets" /\ resp.net = "ok" /\ resp.status # HTTP_OK
    THEN {[by |-> "get_markets", who |-> who, info |-> resp.status]}
    ELSE {}

\* the line "Fetched N total markets" printed before the final return
TotalLog(markets) == {[by |-> "total", who |-> <<"all", 0>>, info |-> Len(markets)]}

----------------------------------------------------------------------------
(* State *)

NoResponse == [net |-> "none", status |-> 0, json |-> FALSE, count |-> 0]
NoOutcome == [ok |-> FALSE, exc |-> "none", status |-> 0, data |-> <<>>]
NoException == [name |-> "none", status |-> 0]
Created == [phase |-> "created", resp |-> NoResponse, outcome |-> NoOutcome]
InFlight == [phase |-> "in_flight", resp |-> NoResponse, outcome |-> NoOutcome]
Done(resp, outcome) == [phase |-> "done", resp |-> resp, outcome |-> outcome]

InitCall(lims, mps) ==
    /\ limit \in lims
    /\ max_pages \in mps
    /\ pc = "idle"
    /\ requests = EmptyBag
    /\ first_resp = NoResponse
    /\ tasks = <<>>
    /\ task_state = <<>>
    /\ out_of_order = FALSE
    /\ all_markets = <<>>
    /\ ret = <<>>
    /\ exc = NoException
    /\ gather_results = <<>>
    /\ log = {}
    /\ session = 0
    /\ sessions = <<>>
    /\ gets = EmptyBag
    /\ fresh = 0
    /\ calls = <<>>

\* `session = await self._get_session()` followed by session.get(endpoint, ...)
GetOn(endpoint) ==
    /\ sessions' = SessionsAfterGet(session, sessions)
    /\ session' = SessionAfterGet(session, sessions)
    /\ gets' = gets (+) SetToBag({[session |-> session', endpoint |-> endpoint]})
    /\ fresh' = fresh + (IF session = 0 THEN 1 ELSE IF sessions[session].closed THEN 1 ELSE 0)

Init == InitCall(1..MaxLimit, -1..MaxPages)

\* the outcome of a call that has not completed
NoFetch ==
    [kind |-> "pending", exc |-> "none", status |-> 0, endpoint |-> "none",
     data |-> <<>>, dumped |-> FALSE]

\* get_markets / get_events is called directly on the client and runs up to
\* its first suspension point: it raises the configuration error, or acquires
\* the session and issues its GET
Fetch(fn, parse_pydantic, local_file) ==
    /\ Len(calls) < MaxCalls
    /\ IF ConfigConflict(parse_pydantic, local_file)
       THEN /\ calls' = Append(calls,
                   [fn |-> fn, parse_pydantic |-> parse_pydantic, local_file |-> local_file,
                    phase |-> "raised", session |-> 0, resp |-> NoResponse,
                    out |-> ConfigError])
            /\ UNCHANGED <<session, sessions, gets, fresh>>
       ELSE /\ GetOn(Endpoint(fn))
            /\ calls' = Append(calls,
                   [fn |-> fn, parse_pydantic |-> parse_pydantic, local_file |-> local_file,
                    phase |-> "in_flight", session |-> session', resp |-> NoResponse,
                    out |-> NoFetch])
    /\ UNCHANGED <<limit, max_pages, pc, requests, first_resp, tasks, task_state,
                   out_of_order, all_markets, ret, exc, gather_results, log>>

\* the GET of a direct call completes: the call returns or raises
FetchDone(c, resp, unparsable) ==
    /\ c \in 1..Len(calls)
    /\ calls[c].phase = "in_flight"
    /\ LET call == calls[c]
           out == PageFetcher(call.fn, call.parse_pydantic, call.local_file,
                              Params(limit, 0), resp, unparsable)
       IN  /\ calls' = [calls EXCEPT ![c] =
                   [call EXCEPT !.phase = IF out.kind = "raise" THEN "raised" ELSE "returned",
                                !.resp = resp, !.out = out]]
           /\ log' = log \cup FetchLog(<<"call", c>>, call.fn, resp)
                       \cup ParseLog(<<"call", c>>, call.parse_pydantic, call.local_file,
                                     Params(limit, 0), resp, unparsable)
    /\ UNCHANGED <<limit, max_pages, pc, requests, first_resp, tasks, task_state,
                   out_of_order, all_markets, ret, exc, gather_results,
                   session, sessions, gets, fresh>>

\* close(): the current session is closed if there is one and it is open
Close ==
    /\ sessions' = SessionsAfterClose(session, sessions)
    /\ UNCHANGED <<limit, max_pages, pc, requests, first_resp, tasks, task_state,
                   out_of_order, all_markets, ret, exc, gather_results, log,
                   session, gets, fresh, calls>>

\* the call starts: the page-0 get_markets issues its GET and is awaited
Call ==
    /\ pc = "idle"
    /\ pc' = "first_page"
    /\ requests' = requests (+) SetToBag({Params(limit, 0)})
    /\ GetOn("markets")
    /\ UNCHANGED <<limit, max_pages, first_resp, tasks, task_state, out_of_order,
                   all_markets, ret, exc, gather_results, log, calls>>

\* the page-0 request completes; the coroutine runs up to its next
\* suspension point (the gather), its return, or the propagated exception
FirstPage(resp) ==
    /\ pc = "first_page"
    /\ first_resp' = resp
    /\ LET r == get_markets(Params(limit, 0), resp)
           first_page == r.data
           branch == AfterFirstPage(first_page, limit)
           built == IF branch = "fan_out" THEN BuildTasks(limit, max_pages) ELSE <<>>
       IN  IF ~r.ok
           THEN /\ pc' = "raised"
                /\ exc' = [name |-> r.exc, status |-> r.status]
                /\ log' = log \cup FetchLog(<<"page", 0>>, "get_markets", resp)
                /\ UNCHANGED <<tasks, task_state, all_markets, ret>>
           ELSE IF branch = "return_empty"
           THEN /\ pc' = "returned"
                /\ ret' = first_page
                /\ UNCHANGED <<tasks, task_state, all_markets, exc, log>>
           ELSE /\ all_markets' = first_page
                /\ tasks' = built
                /\ task_state' = [i \in 1..Len(built) |-> Created]
                /\ IF built # <<>>                       \* if tasks: await gather
                   THEN pc' = "gather" /\ ret' = ret /\ log' = log
                   ELSE /\ pc' = "returned"
                        /\ ret' = first_page
                        /\ log' = log \cup TotalLog(first_page)
                /\ exc' = exc
    /\ UNCHANGED <<limit, max_pages, requests, out_of_order, gather_results>>
    /\ UNCHANGED client_vars

\* a fan-out coroutine starts running and issues its GET
TaskStart(i) ==
    /\ pc = "gather"
    /\ i \in 1..Len(tasks)
    /\ task_state[i].phase = "created"
    /\ task_state' = [task_state EXCEPT ![i] = InFlight]
    /\ requests' = requests (+) SetToBag({tasks[i]})
    /\ GetOn("markets")
    /\ UNCHANGED <<limit, max_pages, pc, first_resp, tasks, out_of_order,
                   all_markets, ret, exc, gather_results, log, calls>>

\* the GET of a fan-out coroutine completes: the coroutine returns or raises
TaskDone(i, resp) ==
    /\ pc = "gather"
    /\ i \in 1..Len(tasks)
    /\ task_state[i].phase = "in_flight"
    /\ task_state' = [task_state EXCEPT ![i] = Done(resp, get_markets(tasks[i], resp))]
    /\ out_of_order' = (out_of_order \/ \E j \in 1..(i - 1) : task_state[j].phase # "done")
    /\ log' = log \cup FetchLog(<<"page", i>>, "get_markets", resp)
    /\ UNCHANGED <<limit, max_pages, pc, requests, first_resp, tasks, all_markets, ret, exc,
                   gather_results>>
    /\ UNCHANGED client_vars

\* every child of the gather is done: the orchestrating coroutine resumes,
\* aggregates the results and returns
Join ==
    /\ pc = "gather"
    /\ GatherDone(task_state)
    /\ gather_results' = GatherResults(task_state)
    /\ all_markets' = Aggregate(all_markets, gather_results', 1, limit)
    /\ log' = log
            \cup {[by |-> "aggregate", who |-> <<"page", j>>, info |-> 0] :
                      j \in AggregateErrors(gather_results', 1, limit)}
            \cup TotalLog(all_markets')
    /\ ret' = all_markets'
    /\ pc' = "returned"
    /\ UNCHANGED <<limit, max_pages, requests, first_resp, tasks, task_state,
                   out_of_order, exc>>
    /\ UNCHANGED client_vars

Next ==
    \/ Call
    \/ \E resp \in Responses(limit) : FirstPage(resp)
    \/ \E i \in 1..Len(tasks) : TaskStart(i)
    \/ \E i \in 1..Len(tasks) : \E resp \in Responses(limit) : TaskDone(i, resp)
    \/ Join

Spec == Init /\ [][Next]_vars

----------------------------------------------------------------------------
(* Calls whose max_pages reaches or exceeds the ceiling: nine coroutines are *)
(* fanned out; each is answered with a full page or with a server error.    *)

CapResponses(lim) ==
    {[net |-> "ok", status |-> 500, json |-> FALSE, count |-> 0],
     [net |-> "ok", status |-> HTTP_OK, json |-> TRUE, count |-> lim]}

InitCap == InitCall({MaxLimit}, {PageCap, PageCap + CapExcess})

NextCap ==
    \/ Call
    \/ \E resp \in Responses(limit) : FirstPage(resp)
    \/ \E i \in 1..Len(tasks) : TaskStart(i)
    \/ \E i \in 1..Len(tasks) : \E resp \in CapResponses(limit) : TaskDone(i, resp)
    \/ Join

SpecCap == InitCap /\ [][NextCap]_vars

\* The event loop runs every ready coroutine and every issued request is
\* eventually answered: no step that can be taken is put off forever.
InitLive == InitCall(1..MaxLimit, 0..ClientPages)

SpecLive == InitLive /\ [][Next]_vars /\ WF_vars(Next)

----------------------------------------------------------------------------
(* The client as a whole: one get_all_current_markets call fanning out two  *)
(* pages, raw get_markets / get_events calls, and close(), interleaved in   *)
(* any order; each GET is answered with a full page or a server error.      *)

Fetchers == {"get_markets", "get_events"}

InitClient == InitCall({1}, {ClientPages})

NextClient ==
    \/ Call
    \/ \E resp \in CapResponses(limit) : FirstPage(resp)
    \/ \E i \in 1..Len(tasks) : TaskStart(i)
    \/ \E i \in 1..Len(tasks) : \E resp \in CapResponses(limit) : TaskDone(i, resp)
    \/ Join
    \/ \E fn \in Fetchers : Fetch(fn, FALSE, FALSE)
    \/ \E c \in 1..Len(calls) : \E resp \in CapResponses(limit) : FetchDone(c, resp, {})
    \/ Close

SpecClient == InitClient /\ [][NextClient]_vars

----------------------------------------------------------------------------
(* The Page Fetcher alone: get_markets / get_events calls in every output   *)
(* mode, answered in every way, and close(), interleaved in any order.      *)

InitFetch == InitCall(1..MaxLimit, {0})

NextFetch ==
    \/ \E fn \in Fetchers : \E pp, lf \in BOOLEAN : Fetch(fn, pp, lf)
    \/ \E c \in 1..Len(calls) : \E resp \in Responses(limit) :
          \E unparsable \in SUBSET (0..(limit - 1)) : FetchDone(c, resp, unparsable)
    \/ Close

SpecFetch == InitFetch /\ [][NextFetch]_vars

----------------------------------------------------------------------------
(* Vocabulary of the properties.  A page is identified by its index p; the  *)
(* request for it carries offset p * limit.  The properties read the        *)
(* remote's answers (first_resp, task_state[i].resp), never the outcome the *)
(* client computed from them.                                               *)

\* the answer is a decodable HTTP 200 carrying exactly k records
IsPageOf(resp, k) ==
    resp.net = "ok" /\ resp.status = 200 /\ resp.json /\ resp.count = k

\* the answer is a failure: transport error, non-200 status or undecodable body
IsFailure(resp) ==
    \/ resp.net = "error"
    \/ resp.net = "ok" /\ resp.status # 200
    \/ resp.net = "ok" /\ resp.status = 200 /\ ~resp.json

\* the first k records of page p of the remote collection
PageRecords(p, k) == [r \in 1..k |-> p * limit + r - 1]

\* the records at positions 0 .. n-1 of the remote collection
Prefix(n) == [r \in 1..n |-> r - 1]

\* the request for page p
PageRequest(p) ==
    [active |-> TRUE, closed |-> FALSE, archived |-> FALSE,
     limit |-> limit, offset |-> p * limit]

OnlyFirstRequest == requests = SetToBag({PageRequest(0)})

Elems(seq) == {seq[x] : x \in DOMAIN seq}

\* C1: if the page-0 request returns 0 records, the call returns the empty
\* sequence and the page-0 request is the only request ever issued.
C1_EmptyFirstPage ==
    IsPageOf(first_resp, 0) =>
        /\ pc = "returned"
        /\ ret = <<>>
        /\ OnlyFirstRequest
        /\ tasks = <<>>

C1_Witness ==
    /\ IsPageOf(first_resp, 0)
    /\ pc = "returned"
    /\ max_pages >= 2

\* C2: if page 0 returns k records with 0 < k < limit, the call returns exactly
\* those k records in their original order and issues one request in total.
C2_ShortFirstPage ==
    \A k \in 1..(limit - 1) :
        IsPageOf(first_resp, k) =>
            /\ pc = "returned"
            /\ ret = PageRecords(0, k)
            /\ BagCardinality(requests) = 1
            /\ OnlyFirstRequest

C2_Witness ==
    /\ \E k \in 1..(limit - 1) : IsPageOf(first_resp, k)
    /\ pc = "returned"
    /\ max_pages >= 2

----------------------------------------------------------------------------
(* Fan-out.  Fan-out coroutine j is the one built for page j. *)

\* the remote's answer to the request of fan-out coroutine j
RespOf(j) == task_state[j].resp

\* every record of the remote collection that lies in page p
PageSlots(p) == (p * limit)..(p * limit + limit - 1)

\* page j answered with a non-empty page shorter than limit
IsShort(j) == \E k \in 1..(limit - 1) : IsPageOf(RespOf(j), k)

\* page j answered with fewer than limit records (possibly none)
IsEndOfData(j) == \E k \in 0..(limit - 1) : IsPageOf(RespOf(j), k)

\* the call returned after a fan-out
ReturnedAfterGather == pc = "returned" /\ tasks # <<>>

\* the pages whose records the aggregation keeps: answered with at least one
\* record, and no non-empty short page at a lower offset
Included ==
    {j \in 1..Len(tasks) :
        /\ \E k \in 1..limit : IsPageOf(RespOf(j), k)
        /\ \A i \in 1..(j - 1) : ~IsShort(i)}

StrictlyAscending(seq) == \A a, b \in DOMAIN seq : a < b => seq[a] < seq[b]

\* C3: whatever the order in which the fanned-out requests complete, the result
\* is page 0's records followed by the records of the included pages in strictly
\* ascending offset order; it is determined by the answers alone.
C3_OffsetOrder ==
    ReturnedAfterGather =>
        /\ SubSeq(ret, 1, limit) = PageRecords(0, limit)
        /\ StrictlyAscending(ret)
        /\ Elems(ret) = Elems(PageRecords(0, limit))
                \cup UNION {Elems(PageRecords(j, RespOf(j).count)) : j \in Included}

C3_Witness ==
    /\ ReturnedAfterGather
    /\ out_of_order
    /\ Cardinality(Included) >= 2
    /\ Len(ret) > 2 * limit

\* C4 as stated: when a fanned-out page j fails the call does not raise, no
\* record of page j is in the result, and the records of every other
\* successful full page are in the result.
C4_Original ==
    /\ tasks # <<>> => pc # "raised"
    /\ ReturnedAfterGather =>
          \A j \in 1..Len(tasks) :
              IsFailure(RespOf(j)) =>
                  /\ Elems(ret) \cap PageSlots(j) = {}
                  /\ Elems(PageRecords(0, limit)) \subseteq Elems(ret)
                  /\ \A i \in 1..Len(tasks) :
                         (i # j /\ IsPageOf(RespOf(i), limit))
                             => Elems(PageRecords(i, limit)) \subseteq Elems(ret)

\* C4 (amended): when a fanned-out page j fails the call does not raise, no
\* record of page j is in the result, and the records of every other
\* successful full page that no page answered with fewer than limit records
\* precedes are in the result; with pages 0..4 full except a failing page 2
\* the result is pages 0, 1, 3, 4 in that order.
C4_FailedPageSkipped ==
    /\ tasks # <<>> => (pc # "raised" /\ exc.name = "none")
    /\ ReturnedAfterGather =>
          \A j \in 1..Len(tasks) :
              IsFailure(RespOf(j)) =>
                  /\ Elems(ret) \cap PageSlots(j) = {}
                  /\ Elems(PageRecords(0, limit)) \subseteq Elems(ret)
                  /\ \A i \in 1..Len(tasks) :
                         (/\ i # j
                          /\ IsPageOf(RespOf(i), limit)
                          /\ \A h \in 1..(i - 1) : ~IsEndOfData(h))
                             => Elems(PageRecords(i, limit)) \subseteq Elems(ret)
    /\ (/\ ReturnedAfterGather
        /\ Len(tasks) = 4
        /\ IsFailure(RespOf(2))
        /\ \A i \in {1, 3, 4} : IsPageOf(RespOf(i), limit))
          => ret = PageRecords(0, limit) \o PageRecords(1, limit)
                     \o PageRecords(3, limit) \o PageRecords(4, limit)

C4_Witness ==
    /\ ReturnedAfterGather
    /\ Len(tasks) = 4
    /\ RespOf(2).net = "error"
    /\ \A i \in {1, 3, 4} : IsPageOf(RespOf(i), limit)
    /\ Len(ret) = 4 * limit

\* C5: a fanned-out page j that succeeded with fewer than limit records (0
\* included) ends the aggregation: no record of a page beyond j is in the result.
C5_ShortPageStops ==
    ReturnedAfterGather =>
        \A j \in 1..Len(tasks) :
            (\E k \in 0..(limit - 1) : IsPageOf(RespOf(j), k))
                => \A x \in Elems(ret) : x < (j + 1) * limit

\* C6: with max_pages >= 4, pages 0, 1, 2 full and page 3 empty, the result is
\* pages 0, 1, 2 in that order, whatever the later pages return.
C6_EmptyFourthPage ==
    (/\ ReturnedAfterGather
     /\ max_pages >= 4
     /\ Len(tasks) >= 3
     /\ IsPageOf(first_resp, limit)
     /\ IsPageOf(RespOf(1), limit)
     /\ IsPageOf(RespOf(2), limit)
     /\ IsPageOf(RespOf(3), 0))
        => ret = Prefix(3 * limit)

\* C7: if pages 0..j-1 are full and page j returns k records, 0 < k < limit,
\* the result is pages 0..j concatenated, j * limit + k records, whatever the
\* later pages returned; every page below min(max_pages, 10) was requested.
C7_ShortPageEndsResult ==
    ReturnedAfterGather =>
        \A j \in 1..Len(tasks) : \A k \in 1..(limit - 1) :
            (/\ IsPageOf(first_resp, limit)
             /\ \A i \in 1..(j - 1) : IsPageOf(RespOf(i), limit)
             /\ IsPageOf(RespOf(j), k))
                => /\ ret = Prefix(j * limit + k)
                   /\ Len(ret) = j * limit + k
                   /\ BagCardinality(requests) = (IF max_pages < 10 THEN max_pages ELSE 10)

C7_Witness ==
    /\ ReturnedAfterGather
    /\ limit >= 2
    /\ Len(tasks) >= 3
    /\ IsPageOf(RespOf(1), limit - 1)
    /\ \A i \in 2..Len(tasks) : IsPageOf(RespOf(i), limit)
    /\ ret = Prefix(2 * limit - 1)

\* C8: with max_pages = 0 or 1 and a full page 0 the call issues no request
\* besides page 0 and returns exactly page 0's records.
C8_NoFanOutBelowTwoPages ==
    (max_pages \in {0, 1} /\ IsPageOf(first_resp, limit)) =>
        /\ pc = "returned"
        /\ ret = PageRecords(0, limit)
        /\ OnlyFirstRequest
        /\ tasks = <<>>

C8_Witness ==
    /\ max_pages = 1
    /\ IsPageOf(first_resp, limit)
    /\ pc = "returned"
    /\ ret = PageRecords(0, limit)

\* the pages a call with a full page 0 fans out: 1 .. min(max_pages, 10) - 1
FanOutPages == 1..((IF max_pages < 10 THEN max_pages ELSE 10) - 1)

\* C9: with a full page 0 the fanned-out requests are exactly one per page i in
\* 1 .. min(max_pages, 10) - 1, with limit = page size and offset = i * limit;
\* at most 9 requests are fanned out and at most 10 issued, whatever max_pages.
C9_BoundedFanOut ==
    /\ Len(tasks) <= 9
    /\ BagCardinality(requests) <= 10
    /\ requests \sqsubseteq SetToBag({PageRequest(i) : i \in {0} \cup FanOutPages})
    /\ (IsPageOf(first_resp, limit) /\ pc # "raised") =>
          /\ Len(tasks) = Cardinality(FanOutPages)
          /\ \A i \in FanOutPages : tasks[i] = PageRequest(i)
    /\ (IsPageOf(first_resp, limit) /\ pc = "returned") =>
          requests = SetToBag({PageRequest(i) : i \in {0} \cup FanOutPages})

C9_Witness ==
    /\ max_pages > 10
    /\ pc = "returned"
    /\ Len(tasks) = 9
    /\ BagCardinality(requests) = 10

\* the exception get_markets raises for a failed answer
ExceptionOf(resp) ==
    IF resp.net = "error" THEN [name |-> "ClientError", status |-> 0]
    ELSE IF resp.status # 200 THEN [name |-> "Gamma API error: HTTP", status |-> resp.status]
    ELSE [name |-> "JSONDecodeError", status |-> 0]

\* C10: if the page-0 request fails, the call raises that failure, returns
\* nothing, and no request for a page >= 1 is issued.
C10_FirstPageFailureFatal ==
    IsFailure(first_resp) =>
        /\ pc = "raised"
        /\ exc = ExceptionOf(first_resp)
        /\ ret = <<>>
        /\ all_markets = <<>>
        /\ tasks = <<>>
        /\ OnlyFirstRequest

C10_Witness ==
    /\ IsFailure(first_resp)
    /\ first_resp.status = 500
    /\ pc = "raised"
    /\ max_pages >= 2

----------------------------------------------------------------------------
(* The Page Fetcher and the session *)

\* the direct calls made with both output modes requested
Conflicting == {c \in 1..Len(calls) : calls[c].parse_pydantic /\ calls[c].local_file}

\* the direct calls that have completed with an answer of the remote
Answered == {c \in 1..Len(calls) : calls[c].resp.net # "none"}

OpenSessions == {i \in 1..Len(sessions) : ~sessions[i].closed}

\* C11: a get_markets / get_events call with parse_pydantic and a
\* local_file_path fails with the configuration error before a session is
\* acquired and before any request is made: sessions and GETs stem from the
\* other calls alone.
C11_ConfigErrorFirst ==
    /\ \A c \in Conflicting :
          /\ calls[c].phase = "raised"
          /\ calls[c].out.kind = "raise"
          /\ calls[c].out.exc = "Cannot use parse_pydantic and local_file simultaneously"
          /\ calls[c].session = 0
          /\ calls[c].resp.net = "none"
    /\ pc = "idle" =>
          /\ BagCardinality(gets) = Len(calls) - Cardinality(Conflicting)
          /\ Len(sessions) <= Len(calls) - Cardinality(Conflicting)
          /\ fresh <= Len(calls) - Cardinality(Conflicting)

C11_Witness ==
    /\ \E c \in Conflicting : calls[c].fn = "get_events" /\ calls[c].phase = "raised"
    /\ Len(calls) = Cardinality(Conflicting)
    /\ session = 0
    /\ gets = EmptyBag

\* C12: no session exists before the first fetch, the first fetch creates one,
\* and until a close() releases it every request, the fanned-out ones included,
\* uses that one session; at most one session is open at any time.
C12_LazySharedSession ==
    /\ gets = EmptyBag => (session = 0 /\ sessions = <<>>)
    /\ gets # EmptyBag => (session # 0 /\ Len(sessions) >= 1)
    /\ Cardinality(OpenSessions) <= 1
    /\ (\A i \in 1..Len(sessions) : ~sessions[i].closed) =>
          /\ Len(sessions) <= 1
          /\ \A g \in BagToSet(gets) : g.session = 1

C12_Witness ==
    /\ pc = "returned"
    /\ Len(tasks) = 2
    /\ Len(calls) >= 1
    /\ BagCardinality(gets) >= 4
    /\ Len(sessions) = 1
    /\ ~sessions[1].closed

\* a step in which a session is released
Released ==
    /\ Len(sessions') = Len(sessions)
    /\ sessions' # sessions

\* C13: no session is ever closed twice, and a close() that releases a session
\* leaves the client without any open session, whatever calls failed before.
C13_ReleasedOnce ==
    /\ [](\A i \in 1..Len(sessions) :
            /\ sessions[i].releases <= 1
            /\ sessions[i].closed <=> sessions[i].releases = 1)
    /\ [][Released => (\A i \in 1..Len(sessions') : sessions'[i].closed)]_vars

C13_Witness ==
    /\ \E c \in 1..Len(calls) : calls[c].phase = "raised"
    /\ pc = "raised"
    /\ session # 0
    /\ sessions[session].closed
    /\ sessions[session].releases = 1

\* C14 as stated: on a status other than 200 the call returns no records and
\* raises an error carrying the status and the endpoint; on 200 it raises no
\* status error.
C14_Original ==
    \A c \in Answered :
        /\ (calls[c].resp.net = "ok" /\ calls[c].resp.status # 200) =>
              /\ calls[c].phase = "raised"
              /\ calls[c].out.data = <<>>
              /\ calls[c].out.exc = "Gamma API error: HTTP"
              /\ calls[c].out.status = calls[c].resp.status
              /\ calls[c].out.endpoint = (IF calls[c].fn = "get_markets" THEN "markets"
                                                                       ELSE "events")
        /\ (calls[c].resp.net = "ok" /\ calls[c].resp.status = 200) =>
              calls[c].out.exc # "Gamma API error: HTTP"

\* C14 (amended): on a status other than 200 the call returns no records and
\* raises an error carrying the status code (and no endpoint); on 200 it
\* raises no status error.
C14_StatusError ==
    \A c \in Answered :
        /\ (calls[c].resp.net = "ok" /\ calls[c].resp.status # 200) =>
              /\ calls[c].phase = "raised"
              /\ calls[c].out.kind = "raise"
              /\ calls[c].out.data = <<>>
              /\ calls[c].out.exc = "Gamma API error: HTTP"
              /\ calls[c].out.status = calls[c].resp.status
              /\ calls[c].out.endpoint = "none"
        /\ (calls[c].resp.net = "ok" /\ calls[c].resp.status = 200) =>
              calls[c].out.exc # "Gamma API error: HTTP"

C14_Witness ==
    \E c \in Answered :
        /\ calls[c].fn = "get_events"
        /\ calls[c].resp.status = 404
        /\ calls[c].phase = "raised"
        /\ calls[c].out.status = 404

\* C15: every completed Page Fetcher call, in every output mode, either
\* returned a sequence of records or raised; on a decodable HTTP 200 it
\* returned a sequence.
C15_SequenceOrError ==
    \A c \in 1..Len(calls) :
        calls[c].phase # "in_flight" =>
            /\ calls[c].out.kind \in {"list", "raise"}
            /\ (calls[c].resp.net = "ok" /\ calls[c].resp.status = 200 /\ calls[c].resp.json)
                  => calls[c].out.kind = "list"

\* C20: close() is not terminal: the sessions created are as many as the
\* fetches that found no open session, the current session is the latest one
\* and every earlier one is closed.
C20_SessionPerReopening ==
    /\ Len(sessions) = fresh
    /\ session = Len(sessions)
    /\ \A i \in 1..(Len(sessions) - 1) : sessions[i].closed

C20_Witness ==
    /\ Len(sessions) >= 2
    /\ sessions[1].closed
    /\ ~sessions[session].closed
    /\ fresh >= 2

----------------------------------------------------------------------------
(* Reporting, independence of the fanned-out requests, termination, writers *)

\* C16: when the call returns, every fanned-out page whose request failed has
\* been reported in the log, also when an earlier short page ended aggregation.
C16_FailuresReported ==
    ReturnedAfterGather =>
        \A j \in 1..Len(tasks) :
            IsFailure(RespOf(j)) => \E e \in log : e.who = <<"page", j>>

\* what the request for page j comes to, given its own answer alone
OutcomeFor(j, resp) ==
    IF resp.net = "error"
    THEN [ok |-> FALSE, exc |-> "ClientError", status |-> 0, data |-> <<>>]
    ELSE IF resp.status # 200
    THEN [ok |-> FALSE, exc |-> "Gamma API error: HTTP", status |-> resp.status, data |-> <<>>]
    ELSE IF ~resp.json
    THEN [ok |-> FALSE, exc |-> "JSONDecodeError", status |-> 0, data |-> <<>>]
    ELSE [ok |-> TRUE, exc |-> "none", status |-> 0, data |-> PageRecords(j, resp.count)]

\* C17: a failed fanned-out request neither cancels nor alters another one:
\* each completed request holds the outcome its own answer gives, and the
\* joined results hold exactly that outcome for every dispatched request.
C17_IndependentOutcomes ==
    /\ \A j \in 1..Len(tasks) :
          task_state[j].phase = "done" => task_state[j].outcome = OutcomeFor(j, RespOf(j))
    /\ ReturnedAfterGather =>
          /\ Len(gather_results) = Len(tasks)
          /\ \A j \in 1..Len(tasks) :
                /\ task_state[j].phase = "done"
                /\ gather_results[j] = OutcomeFor(j, RespOf(j))

C17_Witness ==
    /\ ReturnedAfterGather
    /\ out_of_order
    /\ Len(tasks) >= 3
    /\ IsFailure(RespOf(2))
    /\ gather_results[1].ok /\ gather_results[1].data # <<>>
    /\ gather_results[3].ok /\ gather_results[3].data # <<>>

\* every request issued so far has been answered
AllAnswered ==
    /\ first_resp.net # "none"
    /\ \A j \in 1..Len(tasks) : task_state[j].phase = "done"
    /\ BagCardinality(requests) = 1 + Len(tasks)

\* C18: when every issued request is eventually answered the call eventually
\* returns or raises, and it never does so while a request it issued, or a
\* coroutine it fanned out, is still unanswered.
C18_ReturnsWhenAllComplete ==
    /\ <>(pc \in {"returned", "raised"})
    /\ [](pc \in {"returned", "raised"} => AllAnswered)

C18_Witness ==
    /\ ReturnedAfterGather
    /\ Len(tasks) >= 2
    /\ AllAnswered
    /\ \E j \in 1..Len(tasks) : IsFailure(RespOf(j))

\* C19: while a fanned-out request is unanswered the accumulator holds exactly
\* page 0's records; it holds more only once the call has returned with every
\* fanned-out request joined.
C19_SingleWriter ==
    /\ pc = "gather" => all_markets = PageRecords(0, limit)
    /\ (\E j \in 1..Len(tasks) : task_state[j].phase # "done")
          => all_markets = PageRecords(0, limit)
    /\ (tasks # <<>> /\ all_markets # PageRecords(0, limit))
          => (pc = "returned" /\ \A j \in 1..Len(tasks) : task_state[j].phase = "done")

C19_Witness ==
    /\ pc = "gather"
    /\ \E j \in 1..Len(tasks) :
          task_state[j].phase = "done" /\ task_state[j].outcome.data # <<>>
    /\ \E j \in 1..Len(tasks) : task_state[j].phase = "in_flight"
    /\ all_markets = PageRecords(0, limit)

====
